---- MODULE Spec2Model ----
(***************************************************************************)
(* Model of src/pokeapi.js: the Pokedex page controller.                   *)
(*                                                                         *)
(* JavaScript runs one task at a time.  Every action below is one task: an *)
(* event handler up to its first await, or the arrival of a network answer *)
(* and the continuation it resumes, up to the next await.  A continuation  *)
(* whose promise is already resolved (a cache hit, a delivered batch) is a *)
(* microtask: the task that queued it runs it before any other task starts *)
(* (see Drain).                                                            *)
(*                                                                         *)
(* Strings that the code trims, lowercases or builds from numbers are      *)
(* tuples of one-character strings, so that the conversions are computed.  *)
(***************************************************************************)
EXTENDS Integers, Sequences, FiniteSets

\* ------------------------------------------------------------ constants

PAGE_LIMIT == 24

CONCURRENCY == 12

\* ------------------------------------------------------------ bounds

\* page-load rounds (calls of loadMorePage) in one page session
MaxRounds == 2

\* length of the longest identifier list handed to an isolated batch fetch
MaxNames == 13

\* transport failures the network may inject in one page session
MaxFailures == 1

\* the lookups of a session of detail lookups
MaxLookups == 3

\* the longest array handed to a sortPokemons followed alone
MaxSortLen == 3

\* ------------------------------------------------------------ strings

Range(s) == {s[i] : i \in 1..Len(s)}

Min(a, b) == IF a < b THEN a ELSE b

LowerChar(c) ==
  CASE c = "A" -> "a"
    [] c = "B" -> "b"
    [] c = "X" -> "x"
    [] c = "F" -> "f"
    [] c = "W" -> "w"
    [] OTHER -> c

ToLowerCase(s) == [i \in 1..Len(s) |-> LowerChar(s[i])]

RECURSIVE TrimStart(_)
TrimStart(s) == IF Len(s) > 0 /\ Head(s) = " " THEN TrimStart(Tail(s)) ELSE s

RECURSIVE TrimEnd(_)
TrimEnd(s) ==
  IF Len(s) > 0 /\ s[Len(s)] = " " THEN TrimEnd(SubSeq(s, 1, Len(s) - 1)) ELSE s

Trim(s) == TrimEnd(TrimStart(s))

Digits == <<"0", "1", "2", "3", "4", "5", "6", "7", "8", "9">>

RECURSIVE String(_)
String(n) ==
  IF n < 10 THEN <<Digits[n + 1]>>
  ELSE String(n \div 10) \o <<Digits[(n % 10) + 1]>>

\* ------------------------------------------------------------ the remote API

\* the "no detail" value: what fetchDetailSafely returns for a failed fetch
Null == [id |-> 0, name |-> <<>>, types |-> <<>>]

Fire == <<"f">>

Water == <<"w">>

\* the entities the remote API knows
Pokedex ==
  { [id |-> 1, name |-> <<"a">>, types |-> <<Fire>>],
    [id |-> 2, name |-> <<"b">>, types |-> <<Water, Fire>>] }

\* GET /pokemon/{key}: the entity of that name or id, Null for a 404
ServerDetail(key) ==
  IF \E d \in Pokedex : key = d.name \/ key = String(d.id)
  THEN CHOOSE d \in Pokedex : key = d.name \/ key = String(d.id)
  ELSE Null

\* ------------------------------------------------------------ state

VARIABLES
  state,        \* the UI state object (mode, offset, limit, hasMore, ...)
  controls,     \* the form controls as last read: q, typeFilter, sortBy
  typeOptions,  \* the options loadTypesIntoSelect appended to the type filter
  cache,        \* the detail cache: normalized key -> detail
  grid,         \* the children of the results element, in document order
  btnHidden,    \* els.btnMore.hidden
  busy,         \* the aria-busy attribute of the results element
  notices,      \* the toasts shown so far: <<kind, round>>
  rounds,       \* the calls of loadMorePage, by order of call
  nrounds,      \* how many calls of loadMorePage were made
  initPc,       \* where init() is
  detailReqs,   \* GET /pokemon/{key} requests issued, per key
  catalogReqs,  \* listing and type requests issued: <<round, kind, argument>>
  fails,        \* transport failures injected so far
  sorting       \* a call of sortPokemons alone: its array, key and result

vars ==
  <<state, controls, typeOptions, cache, grid, btnHidden, busy, notices,
    rounds, nrounds, initPc, detailReqs, catalogReqs, fails, sorting>>

\* a call of loadMorePage that has not been made yet
IdleRound ==
  [ pc        |-> "idle",   \* idle, call, list_wait, type_wait, search_wait,
                            \* batch, resolved, done
    mode      |-> "",       \* the branch of loadMorePage this call took
    first     |-> FALSE,    \* isFirstPage
    reqOffset |-> 0,        \* offset of the listing request awaited
    reqLimit  |-> 0,        \* limit of the listing request awaited
    reqKey    |-> <<>>,     \* type or key of the request awaited
    hit       |-> FALSE,    \* the awaited lookup was answered by the cache
    failed    |-> FALSE,    \* the call ended in its catch block
    names     |-> <<>>,     \* fetchManyDetails: the argument
    queue     |-> <<>>,     \* fetchManyDetails: queue
    results   |-> <<>>,     \* fetchManyDetails: results
    active    |-> 0,        \* fetchManyDetails: active
    inflight  |-> <<>>,     \* detail fetches started and not settled
    started   |-> <<>>,     \* identifiers whose fetch was started, in order
    settled   |-> <<>>,     \* fetches settled, in order: <<name, detail>>
    delivered |-> 0,        \* calls of resolve(results)
    snap      |-> <<>> ]    \* <<state>> as it was when the call started

\* ------------------------------------------------------------ the detail cache

\* fetchDetailSafely, line 184
CacheKey(nameOrId) == Trim(ToLowerCase(nameOrId))

CacheHas(c, key) == key \in DOMAIN c

CacheSetKeyOnly(c, key, data) ==
  [k \in (DOMAIN c) \cup {key} |-> IF k = key THEN data ELSE c[k]]

\* fetchDetailSafely, lines 188-190: the three cache.set calls
CacheSet3(c, key, data) ==
  LET new == {key, String(data.id), ToLowerCase(data.name)}
  IN  [k \in (DOMAIN c) \cup new |-> IF k \in new THEN data ELSE c[k]]

EmptyCache == [k \in {} |-> Null]

CatchDetailCachesNull(c, key) ==
  [k \in (DOMAIN c) \cup {key} |-> IF k = key THEN Null ELSE c[k]]

\* fetchDetailSafely, lines 192-194: the catch block leaves the cache alone
CatchDetail(c, key) == c

\* ------------------------------------------------------------ fetchManyDetails

\* lines 210-214: one turn of the while loop: take the head of the queue and
\* start its worker, which calls fetchDetailSafely up to its first await
StartWorker(r, c) ==
  LET name == Head(r.queue)
      key  == CacheKey(name)
      w    == [ name |-> name,
                hit  |-> CacheHas(c, key),
                val  |-> IF CacheHas(c, key) THEN c[key] ELSE Null ]
  IN  [r EXCEPT !.queue    = Tail(@),
                !.active   = @ + 1,
                !.inflight = Append(@, w),
                !.started  = Append(@, name)]

PoolHasRoomInclusive(r) == r.active <= CONCURRENCY

\* line 209: the loop condition
PoolHasRoom(r) == r.active < CONCURRENCY

\* lines 209-223: the while loop (each turn's call is evaluated once)
RECURSIVE WhileLoop(_, _)
WhileLoop(r, c) ==
  IF PoolHasRoom(r) /\ Len(r.queue) > 0
  THEN CHOOSE end \in { WhileLoop(v, c) : v \in {StartWorker(r, c)} } : TRUE
  ELSE r

nextIgnoringActive(r, c) ==
  IF Len(r.queue) = 0
  THEN [r EXCEPT !.delivered = @ + 1, !.pc = "resolved"]
  ELSE WhileLoop(r, c)

\* lines 204-224: next()
next(r, c) ==
  IF Len(r.queue) = 0 /\ r.active = 0
  THEN [r EXCEPT !.delivered = @ + 1, !.pc = "resolved"]
  ELSE WhileLoop(r, c)

\* lines 198-226: the call, up to the first await of its workers
fetchManyDetails(r, names, c) ==
  CHOOSE end \in
    { next(v, c) :
        v \in { [r EXCEPT !.pc = "batch", !.names = names, !.queue = names,
                          !.results = <<>>, !.active = 0, !.inflight = <<>>,
                          !.started = <<>>, !.settled = <<>>,
                          !.delivered = 0] } } : TRUE

PushResultAlways(results, d) == Append(results, d)

\* line 215: if (d) results.push(d)
PushResult(results, d) == IF d # Null THEN Append(results, d) ELSE results

\* lines 215-220: a worker's await has settled with d
WorkerDone(r, i, d, c) ==
  CHOOSE end \in
    { next(v, c) :
        v \in { [r EXCEPT
                   !.inflight = SubSeq(@, 1, i - 1) \o SubSeq(@, i + 1, Len(@)),
                   !.results  = PushResult(@, d),
                   !.settled  = Append(@, <<r.inflight[i].name, d>>),
                   !.active   = @ - 1] } } : TRUE

\* the GET /pokemon/{key} requests a step issued: the workers it appended
\* after the first n0 that missed the cache
NewRequests(n0, new) ==
  { i \in (n0 + 1)..Len(new.inflight) : ~new.inflight[i].hit }

CountRequests(reqs, n0, new) ==
  LET keys == { CacheKey(new.inflight[i].name) : i \in NewRequests(n0, new) }
  IN  [k \in (DOMAIN reqs) \cup keys |->
         (IF k \in DOMAIN reqs THEN reqs[k] ELSE 0)
         + Cardinality({ i \in NewRequests(n0, new) :
                           CacheKey(new.inflight[i].name) = k })]

CountRequest(reqs, key) ==
  [k \in (DOMAIN reqs) \cup {key} |->
     (IF k \in DOMAIN reqs THEN reqs[k] ELSE 0) + (IF k = key THEN 1 ELSE 0)]

\* ------------------------------------------------------------ sorting

Alphabet ==
  <<" ", "0", "1", "2", "3", "4", "5", "6", "7", "8", "9",
    "a", "b", "d", "f", "h", "k", "n", "o", "s", "u", "w", "x">>

CharRank(c) == CHOOSE i \in 1..Len(Alphabet) : Alphabet[i] = c

\* a.localeCompare(b) on the strings of the model: negative, zero or positive
RECURSIVE localeCompare(_, _)
localeCompare(a, b) ==
  IF Len(a) = 0 /\ Len(b) = 0 THEN 0
  ELSE IF Len(a) = 0 THEN -1
  ELSE IF Len(b) = 0 THEN 1
  ELSE IF Head(a) # Head(b) THEN CharRank(Head(a)) - CharRank(Head(b))
  ELSE localeCompare(Tail(a), Tail(b))

ComparatorNameDescAsAsc(a, b, sortBy) ==
  CASE sortBy = "id-asc"    -> a.id - b.id
    [] sortBy = "id-desc"   -> b.id - a.id
    [] sortBy = "name-asc"  -> localeCompare(a.name, b.name)
    [] sortBy = "name-desc" -> localeCompare(a.name, b.name)
    [] sortBy = "text"      -> localeCompare(a, b)
    [] OTHER                -> 0

\* lines 377-382 and 237: the comparator of each sort; 0 where the switch
\* has no case ("text" is the comparator of loadTypesIntoSelect)
Comparator(a, b, sortBy) ==
  CASE sortBy = "id-asc"    -> a.id - b.id
    [] sortBy = "id-desc"   -> b.id - a.id
    [] sortBy = "name-asc"  -> localeCompare(a.name, b.name)
    [] sortBy = "name-desc" -> localeCompare(b.name, a.name)
    [] sortBy = "text"      -> localeCompare(a, b)
    [] OTHER                -> 0

\* Array.prototype.sort is stable: x goes after every element not above it
\* the place of x in the sorted out: after the last element not above it
InsertAt(out, x, sortBy) ==
  IF \E j \in 1..Len(out) : Comparator(out[j], x, sortBy) <= 0
  THEN CHOOSE j \in 1..Len(out) :
         /\ Comparator(out[j], x, sortBy) <= 0
         /\ \A k \in (j + 1)..Len(out) : Comparator(out[k], x, sortBy) > 0
  ELSE 0

InsertSorted(out, x, sortBy) ==
  LET j == InsertAt(out, x, sortBy)
  IN  SubSeq(out, 1, j) \o <<x>> \o SubSeq(out, j + 1, Len(out))

RECURSIVE SortFrom(_, _, _, _)
SortFrom(out, arr, i, sortBy) ==
  IF i > Len(arr) THEN out
  ELSE CHOOSE end \in
         { SortFrom(v, arr, i + 1, sortBy) :
             v \in {InsertSorted(out, arr[i], sortBy)} } : TRUE

\* lines 375-384
sortPokemons(arr, sortBy) == SortFrom(<<>>, arr, 1, sortBy)

\* no call of sortPokemons is being followed
NoSort == [pc |-> "none", arr |-> <<>>, given |-> <<>>, sortBy |-> "", out |-> <<>>]

\* ------------------------------------------------------------ the remote API, lists

Unknown == <<"u", "n", "k", "n", "o", "w", "n">>

Shadow == <<"s", "h", "a", "d", "o", "w">>

\* GET /type: the names of all types, in the server's order
ServerTypes == <<Water, Unknown, Fire, Shadow>>

\* the listing of the server: one full page naming entity "a", then a name
\* whose detail request is answered 404
ServerListing ==
  [i \in 1..(PAGE_LIMIT + 1) |-> IF i <= PAGE_LIMIT THEN <<"a">> ELSE <<"x">>]

\* the members the server lists under type Fire: one full page naming
\* entity "a", then "b", then a name whose detail request is answered 404
FireMembers ==
  [i \in 1..(PAGE_LIMIT + 2) |->
     IF i <= PAGE_LIMIT THEN <<"a">>
     ELSE IF i = PAGE_LIMIT + 1 THEN <<"b">>
     ELSE <<"x">>]

\* GET /pokemon?limit=&offset=: the names of the page
ListingPage(offset, limit) ==
  SubSeq(ServerListing, offset + 1, Min(offset + limit, Len(ServerListing)))

\* GET /type/{name}: the members of the type (a 404 for any other name);
\* the server lists no member under type Water
KnownTypes == {Fire, Water}

TypeMembers(typeName) == IF typeName = Fire THEN FireMembers ELSE <<>>

\* ------------------------------------------------------------ the page

Skeleton == [kind |-> "skeleton", id |-> 0, by |-> 0]

EmptyState == [kind |-> "empty", id |-> 0, by |-> 0]

\* lines 268-316: the card of a detail (by: the call of loadMorePage that
\* rendered it)
buildCard(detail, r) == [kind |-> "card", id |-> detail.id, by |-> r]

\* lines 259-265
renderCards(g, pokemons, r) ==
  g \o [i \in 1..Len(pokemons) |-> buildCard(pokemons[i], r)]

\* lines 319-325
renderSkeletons(g, n) == g \o [i \in 1..n |-> Skeleton]

IsNotSkeleton(node) == node.kind # "skeleton"

\* lines 328-330
clearSkeletons(g) == SelectSeq(g, IsNotSkeleton)

\* lines 333-342
renderEmptyState(g) == Append(g, EmptyState)

\* lines 360-370: a toast of that kind, shown by call r (0: by init)
toast(ns, kind, r) == Append(ns, <<kind, r>>)

InitialState ==
  [ mode        |-> "list",
    offset      |-> 0,
    limit       |-> PAGE_LIMIT,
    hasMore     |-> TRUE,
    currentQ    |-> <<>>,
    currentType |-> <<>>,
    currentSort |-> "id-asc",
    typeCatalog |-> <<>>,
    typeCursor  |-> 0 ]

QueryStateTypeFirst(st, q, t, sortBy) ==
  LET currentQ    == ToLowerCase(Trim(q))
      currentType == ToLowerCase(Trim(t))
  IN  [st EXCEPT
         !.currentQ    = currentQ,
         !.currentType = currentType,
         !.currentSort = IF sortBy = "" THEN "id-asc" ELSE sortBy,
         !.mode        = IF currentType # <<>> THEN "type"
                         ELSE IF currentQ # <<>> THEN "search"
                         ELSE "list",
         !.offset      = 0,
         !.typeCatalog = <<>>,
         !.typeCursor  = 0,
         !.hasMore     = TRUE]

\* lines 73-90: runQueryFromControls up to the call of loadMorePage
QueryState(st, q, t, sortBy) ==
  LET currentQ    == ToLowerCase(Trim(q))
      currentType == ToLowerCase(Trim(t))
  IN  [st EXCEPT
         !.currentQ    = currentQ,
         !.currentType = currentType,
         !.currentSort = IF sortBy = "" THEN "id-asc" ELSE sortBy,
         !.mode        = IF currentQ # <<>> THEN "search"
                         ELSE IF currentType # <<>> THEN "type"
                         ELSE "list",
         !.offset      = 0,
         !.typeCatalog = <<>>,
         !.typeCursor  = 0,
         !.hasMore     = TRUE]

\* lines 234-237: the options of the type filter
TypeOptionsOf(results) ==
  LET names == [i \in 1..Len(results) |-> ToLowerCase(results[i])]
      Keep(t) == t \notin {Unknown, Shadow}
  IN  sortPokemons(SelectSeq(names, Keep), "text")

\* line 117: the slice of the catalog the page shows
CatalogSlice(st) ==
  SubSeq(st.typeCatalog, st.typeCursor + 1,
         Min(st.typeCursor + st.limit, Len(st.typeCatalog)))

\* lines 118-119
AfterSlice(st) ==
  LET slice == CatalogSlice(st)
  IN  [st EXCEPT !.typeCursor = @ + Len(slice),
                 !.hasMore    = (st.typeCursor + Len(slice)) < Len(st.typeCatalog)]

\* lines 176-179
CatalogOf(members) ==
  [i \in 1..Len(members) |-> [name |-> members[i], url |-> members[i]]]

NamesOf(slice) == [i \in 1..Len(slice) |-> slice[i].name]

\* ------------------------------------------------------------ the program state

\* the program state as one record: the handlers below map such a record
\* to the record after they ran
World ==
  [ state |-> state, controls |-> controls, typeOptions |-> typeOptions,
    cache |-> cache, grid |-> grid, btnHidden |-> btnHidden, busy |-> busy,
    notices |-> notices, rounds |-> rounds, nrounds |-> nrounds,
    initPc |-> initPc, detailReqs |-> detailReqs,
    catalogReqs |-> catalogReqs, fails |-> fails ]

Becomes(w) ==
  /\ state' = w.state
  /\ controls' = w.controls
  /\ typeOptions' = w.typeOptions
  /\ cache' = w.cache
  /\ grid' = w.grid
  /\ btnHidden' = w.btnHidden
  /\ busy' = w.busy
  /\ notices' = w.notices
  /\ rounds' = w.rounds
  /\ nrounds' = w.nrounds
  /\ initPc' = w.initPc
  /\ detailReqs' = w.detailReqs
  /\ catalogReqs' = w.catalogReqs
  /\ fails' = w.fails
  /\ sorting' = sorting

\* ------------------------------------------------------------ loadMorePage

\* a call of loadMorePage that returned: its batch and how it ended
Returned(r, batch, failed) ==
  [IdleRound EXCEPT !.pc = "done", !.mode = r.mode, !.first = r.first,
                    !.reqOffset = r.reqOffset, !.reqLimit = r.reqLimit,
                    !.reqKey = r.reqKey, !.hit = r.hit, !.names = r.names,
                    !.snap = r.snap, !.results = batch, !.failed = failed]

FinishPageDropsStale(w, r, st, batch) ==
  LET g     == clearSkeletons(w.grid)
      stale == \E k \in (r + 1)..Len(w.rounds) : w.rounds[k].first
  IN  [w EXCEPT
         !.state     = IF stale THEN w.state ELSE st,
         !.grid      = IF stale THEN w.grid
                       ELSE IF Len(batch) = 0
                       THEN (IF w.rounds[r].first THEN renderEmptyState(g) ELSE g)
                       ELSE renderCards(g, sortPokemons(batch, st.currentSort), r),
         !.btnHidden = IF stale THEN w.btnHidden ELSE ~st.hasMore,
         !.busy      = FALSE,
         !.rounds[r] = Returned(w.rounds[r], batch, FALSE)]

\* lines 139-151 and 158: the end of call r, its batch known
FinishPage(w, r, st, batch) ==
  LET g == clearSkeletons(w.grid)
  IN  [w EXCEPT
         !.state     = st,
         !.grid      = IF Len(batch) = 0
                       THEN (IF w.rounds[r].first THEN renderEmptyState(g) ELSE g)
                       ELSE renderCards(g, sortPokemons(batch, st.currentSort), r),
         !.btnHidden = ~st.hasMore,
         !.busy      = FALSE,
         !.rounds[r] = Returned(w.rounds[r], batch, FALSE)]

CatchPageEndsPaging(w, r) ==
  [w EXCEPT !.grid      = clearSkeletons(w.grid),
            !.notices   = toast(w.notices, "error", r),
            !.busy      = FALSE,
            !.state     = [w.state EXCEPT !.hasMore = FALSE],
            !.btnHidden = TRUE,
            !.rounds[r] = Returned(w.rounds[r], <<>>, TRUE)]

\* lines 153-158: the catch block of call r
CatchPage(w, r) ==
  [w EXCEPT !.grid      = clearSkeletons(w.grid),
            !.notices   = toast(w.notices, "error", r),
            !.busy      = FALSE,
            !.rounds[r] = Returned(w.rounds[r], <<>>, TRUE)]

\* lines 104-124: the branch of loadMorePage that call r takes, up to its
\* first await
StartBranch(w, r, base) ==
  LET st  == w.state
      key == CacheKey(st.currentQ)
      b   == fetchManyDetails(base, NamesOf(CatalogSlice(st)), w.cache)
  IN  CASE st.mode = "list" ->
             [w EXCEPT
                !.rounds = Append(@, [base EXCEPT !.pc = "list_wait",
                                                  !.reqOffset = st.offset,
                                                  !.reqLimit = st.limit]),
                !.catalogReqs = Append(@, [by |-> r, kind |-> "list",
                                           offset |-> st.offset, key |-> <<>>])]
        [] st.mode = "type" /\ Len(st.typeCatalog) = 0 ->
             [w EXCEPT
                !.rounds = Append(@, [base EXCEPT !.pc = "type_wait",
                                                  !.reqKey = st.currentType]),
                !.catalogReqs = Append(@, [by |-> r, kind |-> "type",
                                           offset |-> 0, key |-> st.currentType])]
        [] st.mode = "type" /\ Len(st.typeCatalog) # 0 ->
             [w EXCEPT
                !.rounds = Append(@, b),
                !.state = AfterSlice(st),
                !.detailReqs = CountRequests(@, 0, b)]
        [] st.mode = "search" ->
             [w EXCEPT
                !.rounds = Append(@, [base EXCEPT !.pc = "search_wait",
                                                  !.reqKey = key,
                                                  !.hit = CacheHas(w.cache, key)]),
                !.detailReqs = IF CacheHas(w.cache, key) THEN @
                               ELSE CountRequest(@, key)]

\* lines 96-124: a call of loadMorePage(isFirstPage) up to its first await
loadMorePage(w, isFirstPage) ==
  LET r    == w.nrounds + 1
      base == [IdleRound EXCEPT !.mode = w.state.mode, !.first = isFirstPage,
                                !.snap = <<w.state>>]
      w1   == [w EXCEPT
                 !.nrounds = r,
                 !.busy    = TRUE,
                 !.grid    = IF isFirstPage
                             THEN renderSkeletons(@, IF w.state.mode = "search"
                                                     THEN 1 ELSE w.state.limit)
                             ELSE @]
  IN  StartBranch(w1, r, base)

\* lines 72-93: runQueryFromControls, the controls holding q, t and sortBy
runQueryFromControls(w, q, t, sortBy) ==
  loadMorePage([w EXCEPT
                  !.controls = [q |-> q, typeFilter |-> t, sortBy |-> sortBy],
                  !.state    = QueryState(w.state, q, t, sortBy),
                  !.grid     = <<>>],
               TRUE)

AfterListPageByBatch(st, batch) ==
  [st EXCEPT !.offset = @ + Len(batch), !.hasMore = (Len(batch) = st.limit)]

\* lines 108-109: what a list page does with its batch
AfterListPage(st, batch) ==
  [st EXCEPT !.offset = @ + st.limit, !.hasMore = (Len(batch) = st.limit)]

\* lines 107-109 or 120, then 139-158: call r resumes with the batch that
\* fetchManyDetails delivered
BatchDelivered(w, r) ==
  LET batch == w.rounds[r].results
      st1   == IF w.rounds[r].mode = "list" THEN AfterListPage(w.state, batch)
               ELSE w.state
  IN  FinishPage(w, r, st1, batch)

\* line 126
HasType(poke, typeName) ==
  \E i \in 1..Len(poke.types) : poke.types[i] = typeName

\* lines 125-127: the search found poke, but the type filter excludes it
TypeMismatch(st, poke) ==
  poke # Null /\ st.currentType # <<>> /\ ~HasType(poke, st.currentType)

SearchBatchKeepsMismatch(st, poke) == IF poke = Null THEN <<>> ELSE <<poke>>

\* lines 125-136: the batch of a search that found poke (Null: nothing)
SearchBatch(st, poke) ==
  IF poke = Null \/ TypeMismatch(st, poke) THEN <<>> ELSE <<poke>>

SearchDoneKeepsHasMore(w, r, poke) ==
  LET w1 == [w EXCEPT
               !.notices = IF TypeMismatch(w.state, poke)
                           THEN toast(@, "info", r) ELSE @]
  IN  FinishPage(w1, r, w.state, SearchBatch(w.state, poke))

\* lines 125-158: call r resumes with the detail its search found
SearchDone(w, r, poke) ==
  LET w1 == [w EXCEPT
               !.notices = IF TypeMismatch(w.state, poke)
                           THEN toast(@, "info", r) ELSE @]
  IN  FinishPage(w1, r, [w.state EXCEPT !.hasMore = FALSE],
                 SearchBatch(w.state, poke))

\* ------------------------------------------------------------ microtasks

\* a continuation of call r is ready to run as a microtask: a worker whose
\* lookup hit the cache, a search that hit the cache, a batch delivered to
\* loadMorePage
HasMicrotask(r) ==
  \/ r.pc = "batch" /\ \E i \in 1..Len(r.inflight) : r.inflight[i].hit
  \/ r.pc = "search_wait" /\ r.hit
  \/ r.pc = "resolved" /\ r.mode # "bare"

\* the first worker of the call whose lookup hit the cache
FirstHit(r) ==
  CHOOSE i \in 1..Len(r.inflight) :
    /\ r.inflight[i].hit
    /\ \A j \in 1..(i - 1) : ~r.inflight[j].hit

\* lines 185 and 215-220: worker i of call r resumes with the detail d
WorkerResumes(w, r, i, d) ==
  CHOOSE end \in
    { [w EXCEPT !.rounds[r] = b,
                !.detailReqs = CountRequests(@, Len(w.rounds[r].inflight) - 1, b)] :
        b \in {WorkerDone(w.rounds[r], i, d, w.cache)} } : TRUE

\* the microtask at the head of the queue runs
Microtask(w, r) ==
  LET c == w.rounds[r]
  IN  CASE c.pc = "batch" ->
             WorkerResumes(w, r, FirstHit(c), c.inflight[FirstHit(c)].val)
        [] c.pc = "search_wait" -> SearchDone(w, r, w.cache[c.reqKey])
        [] c.pc = "resolved" -> BatchDelivered(w, r)

\* the microtask queue is run until it is empty, which ends the task
RECURSIVE Drain(_)
Drain(w) ==
  IF \E r \in 1..Len(w.rounds) : HasMicrotask(w.rounds[r])
  THEN CHOOSE end \in
         { Drain(v) : v \in { Microtask(w, r) :
                               r \in { CHOOSE r \in 1..Len(w.rounds) :
                                         HasMicrotask(w.rounds[r]) } } } : TRUE
  ELSE w

\* the program state becomes what the task that produced w left, its
\* microtasks run
Task(w) == \E v \in {w} : \E end \in {Drain(v)} : Becomes(end)

\* ------------------------------------------------------------ user events

QInputs == { <<>>, <<" ", "A">>, <<"2">>, <<"x">> }

SortInputs == { "name-desc" }

TypeInputs == {<<>>} \cup Range(typeOptions)

\* lines 57-60 and 66-68: the form is submitted, or the sort order changed
Submit(q, t, sortBy) ==
  /\ nrounds < MaxRounds
  /\ Task(runQueryFromControls(World, q, t, sortBy))

\* line 63: a click on "Load more"
LoadMoreClick ==
  /\ nrounds < MaxRounds
  /\ ~btnHidden
  /\ Task(loadMorePage(World, FALSE))

\* ------------------------------------------------------------ init

\* lines 44-47 and 230-247: GET /type is answered; the options are appended
\* and the first query runs with the controls as they are then
InitTypesLoaded(q, sortBy) ==
  /\ initPc = "types_wait"
  /\ nrounds < MaxRounds
  /\ Task(runQueryFromControls(
       [World EXCEPT !.initPc = "done",
                     !.typeOptions = @ \o TypeOptionsOf(ServerTypes)],
       q, controls.typeFilter, sortBy))

\* lines 48-51: GET /type failed
InitTypesFailed ==
  /\ initPc = "types_wait"
  /\ fails < MaxFailures
  /\ Task([World EXCEPT !.fails = @ + 1, !.initPc = "failed",
                        !.notices = toast(@, "error", 0)])

\* ------------------------------------------------------------ network answers

InstallCatalogKeepsCursor(st, members) ==
  [st EXCEPT !.typeCatalog = CatalogOf(members)]

\* lines 114-115: the awaited catalog is assigned and the cursor reset
InstallCatalog(st, members) ==
  [st EXCEPT !.typeCatalog = CatalogOf(members), !.typeCursor = 0]

Waiting(r, pc) == r \in 1..Len(rounds) /\ rounds[r].pc = pc

\* lines 167-169: the listing request of call r is answered; fetchListPage
\* hands the names to fetchManyDetails
ListLoaded(r) ==
  /\ Waiting(r, "list_wait")
  /\ LET names == ListingPage(rounds[r].reqOffset, rounds[r].reqLimit)
         b     == fetchManyDetails(rounds[r], names, cache)
     IN  Task([World EXCEPT !.rounds[r] = b,
                            !.detailReqs = CountRequests(@, 0, b)])

\* lines 252 and 153-158: the listing request of call r fails
ListFailed(r) ==
  /\ Waiting(r, "list_wait")
  /\ fails < MaxFailures
  /\ Task(CatchPage([World EXCEPT !.fails = @ + 1], r))

\* lines 114-120: the type request of call r is answered
TypeLoaded(r) ==
  /\ Waiting(r, "type_wait")
  /\ rounds[r].reqKey \in KnownTypes
  /\ LET st1 == InstallCatalog(state, TypeMembers(rounds[r].reqKey))
         b   == fetchManyDetails(rounds[r], NamesOf(CatalogSlice(st1)), cache)
     IN  Task([World EXCEPT !.state = AfterSlice(st1),
                            !.rounds[r] = b,
                            !.detailReqs = CountRequests(@, 0, b)])

\* lines 252 and 153-158: the type request of call r fails (a 404 for a type
\* the server does not know, or a transport failure)
TypeFailed(r) ==
  /\ Waiting(r, "type_wait")
  /\ \/ rounds[r].reqKey \notin KnownTypes
        /\ Task(CatchPage(World, r))
     \/ rounds[r].reqKey \in KnownTypes /\ fails < MaxFailures
        /\ Task(CatchPage([World EXCEPT !.fails = @ + 1], r))

\* lines 187-191 and 215-220: the detail request of worker i of call r is
\* answered; the detail is cached, pushed, and next() runs
WorkerSettled(r, i) ==
  /\ Waiting(r, "batch")
  /\ i \in 1..Len(rounds[r].inflight)
  /\ ~rounds[r].inflight[i].hit
  /\ LET key  == CacheKey(rounds[r].inflight[i].name)
         data == ServerDetail(key)
     IN  /\ data # Null
         /\ Task(WorkerResumes(
              [World EXCEPT !.cache = CacheSet3(@, key, data)], r, i, data))

\* lines 192-194, 252 and 215-220: the detail request of worker i of call
\* r is answered 404; the worker resumes with null
WorkerNotFound(r, i) ==
  /\ Waiting(r, "batch")
  /\ i \in 1..Len(rounds[r].inflight)
  /\ ~rounds[r].inflight[i].hit
  /\ ServerDetail(CacheKey(rounds[r].inflight[i].name)) = Null
  /\ Task(WorkerResumes(
       [World EXCEPT
          !.cache = CatchDetail(@, CacheKey(rounds[r].inflight[i].name))],
       r, i, Null))

\* lines 192-194 and 215-220: the detail request of worker i of call r
\* fails in transport; the worker resumes with null
WorkerFailed(r, i) ==
  /\ Waiting(r, "batch")
  /\ i \in 1..Len(rounds[r].inflight)
  /\ ~rounds[r].inflight[i].hit
  /\ fails < MaxFailures
  /\ Task(WorkerResumes(
       [World EXCEPT
          !.fails = @ + 1,
          !.cache = CatchDetail(@, CacheKey(rounds[r].inflight[i].name))],
       r, i, Null))

\* lines 187-191: the detail request of the search of call r is answered
SearchLoaded(r) ==
  /\ Waiting(r, "search_wait")
  /\ LET data == ServerDetail(rounds[r].reqKey)
     IN  /\ data # Null
         /\ Task(SearchDone(
              [World EXCEPT !.cache = CacheSet3(@, rounds[r].reqKey, data)],
              r, data))

\* lines 192-194 and 252: the detail request of the search of call r is
\* answered 404
SearchNotFound(r) ==
  /\ Waiting(r, "search_wait")
  /\ ServerDetail(rounds[r].reqKey) = Null
  /\ Task(SearchDone(
       [World EXCEPT !.cache = CatchDetail(@, rounds[r].reqKey)], r, Null))

\* lines 192-194: the detail request of the search of call r fails in
\* transport
SearchFailed(r) ==
  /\ Waiting(r, "search_wait")
  /\ fails < MaxFailures
  /\ Task(SearchDone(
       [World EXCEPT !.fails = @ + 1,
                     !.cache = CatchDetail(@, rounds[r].reqKey)], r, Null))

\* ------------------------------------------------------------ the page session

\* lines 41-46: bindUI() and init() have run; GET /type is awaited.  The
\* page is served with the "Load more" button hidden or not.
Init ==
  /\ state = InitialState
  /\ controls = [q |-> <<>>, typeFilter |-> <<>>, sortBy |-> "id-asc"]
  /\ typeOptions = <<>>
  /\ cache = EmptyCache
  /\ grid = <<>>
  /\ btnHidden \in BOOLEAN
  /\ busy = FALSE
  /\ notices = <<>>
  /\ rounds = <<>>
  /\ nrounds = 0
  /\ initPc = "types_wait"
  /\ detailReqs = [k \in {} |-> 0]
  /\ catalogReqs = <<>>
  /\ fails = 0
  /\ sorting = NoSort

Next ==
  \/ \E q \in QInputs, t \in TypeInputs, sortBy \in SortInputs : Submit(q, t, sortBy)
  \/ LoadMoreClick
  \/ \E q \in QInputs, sortBy \in SortInputs : InitTypesLoaded(q, sortBy)
  \/ InitTypesFailed
  \/ \E r \in 1..MaxRounds : ListLoaded(r)
  \/ \E r \in 1..MaxRounds : ListFailed(r)
  \/ \E r \in 1..MaxRounds : TypeLoaded(r)
  \/ \E r \in 1..MaxRounds : TypeFailed(r)
  \/ \E r \in 1..MaxRounds, i \in 1..CONCURRENCY : WorkerSettled(r, i)
  \/ \E r \in 1..MaxRounds, i \in 1..CONCURRENCY : WorkerNotFound(r, i)
  \/ \E r \in 1..MaxRounds, i \in 1..CONCURRENCY : WorkerFailed(r, i)
  \/ \E r \in 1..MaxRounds : SearchLoaded(r)
  \/ \E r \in 1..MaxRounds : SearchNotFound(r)
  \/ \E r \in 1..MaxRounds : SearchFailed(r)

Spec == Init /\ [][Next]_vars

\* ------------------------------------------------------------ the page, loaded

\* the detail of the entity named "a"
EntityA == ServerDetail(<<"a">>)

\* the page once init() is over: the types are loaded and the first page of
\* the listing is rendered (its calls are not counted in rounds)
InitLoaded ==
  /\ state = [InitialState EXCEPT !.offset = PAGE_LIMIT,
                                  !.currentSort = "name-desc"]
  /\ controls = [q |-> <<>>, typeFilter |-> <<>>, sortBy |-> "name-desc"]
  /\ typeOptions = TypeOptionsOf(ServerTypes)
  /\ cache = CacheSet3(EmptyCache, <<"a">>, EntityA)
  /\ grid = renderCards(<<>>, [i \in 1..PAGE_LIMIT |-> EntityA], 0)
  /\ btnHidden = FALSE
  /\ busy = FALSE
  /\ notices = <<>>
  /\ rounds = <<>>
  /\ nrounds = 0
  /\ initPc = "done"
  /\ detailReqs = [k \in {} |-> 0]
  /\ catalogReqs = <<>>
  /\ fails = 0
  /\ sorting = NoSort

NextLoaded ==
  \/ \E q \in QInputs, t \in TypeInputs, sortBy \in SortInputs : Submit(q, t, sortBy)
  \/ LoadMoreClick
  \/ \E r \in 1..MaxRounds : ListLoaded(r)
  \/ \E r \in 1..MaxRounds : ListFailed(r)
  \/ \E r \in 1..MaxRounds : TypeLoaded(r)
  \/ \E r \in 1..MaxRounds : TypeFailed(r)
  \/ \E r \in 1..MaxRounds, i \in 1..CONCURRENCY : WorkerSettled(r, i)
  \/ \E r \in 1..MaxRounds, i \in 1..CONCURRENCY : WorkerNotFound(r, i)
  \/ \E r \in 1..MaxRounds, i \in 1..CONCURRENCY : WorkerFailed(r, i)
  \/ \E r \in 1..MaxRounds : SearchLoaded(r)
  \/ \E r \in 1..MaxRounds : SearchNotFound(r)
  \/ \E r \in 1..MaxRounds : SearchFailed(r)

SpecLoaded == InitLoaded /\ [][NextLoaded]_vars

\* ------------------------------------------------------------ a batch fetch alone

\* the identifiers of the lists handed to an isolated fetchManyDetails
BatchNames == { <<"a">>, <<"b">>, <<"x">>, <<"A", " ">> }

\* a list longer than the pool: an unknown identifier, then known ones
LongNames(n) ==
  [i \in 1..n |-> IF i = 1 THEN <<"x">> ELSE IF i = 2 THEN <<"b">> ELSE <<"a">>]

BatchInputs ==
  {<<>>} \cup { <<n>> : n \in BatchNames }
         \cup { <<n, m>> : n \in BatchNames, m \in BatchNames }
         \cup { LongNames(n) : n \in CONCURRENCY..MaxNames }

\* the cache before the call: empty, or holding entity 1 after a lookup of "a"
BatchCaches ==
  { EmptyCache, CacheSet3(EmptyCache, <<"a">>, ServerDetail(<<"a">>)) }

\* a page session in which fetchManyDetails(names) is about to be called
InitBatch ==
  /\ state = InitialState
  /\ controls = [q |-> <<>>, typeFilter |-> <<>>, sortBy |-> "id-asc"]
  /\ typeOptions = <<>>
  /\ cache \in BatchCaches
  /\ grid = <<>>
  /\ btnHidden = FALSE
  /\ busy = FALSE
  /\ notices = <<>>
  /\ \E names \in BatchInputs :
       rounds = << [IdleRound EXCEPT !.pc = "call", !.mode = "bare",
                                     !.names = names] >>
  /\ nrounds = 1
  /\ initPc = "done"
  /\ detailReqs = [k \in {} |-> 0]
  /\ catalogReqs = <<>>
  /\ fails = 0
  /\ sorting = NoSort

\* lines 198-226: fetchManyDetails(names) is called
BatchCall(r) ==
  /\ Waiting(r, "call")
  /\ \E b \in {fetchManyDetails(rounds[r], rounds[r].names, cache)} :
       Task([World EXCEPT !.rounds[r] = b,
                          !.detailReqs = CountRequests(@, 0, b)])

Settle ==
  \E r \in 1..MaxRounds, i \in 1..CONCURRENCY :
    WorkerSettled(r, i) \/ WorkerNotFound(r, i) \/ WorkerFailed(r, i)

NextBatch ==
  \/ \E r \in 1..MaxRounds : BatchCall(r)
  \/ \E r \in 1..MaxRounds, i \in 1..CONCURRENCY : WorkerSettled(r, i)
  \/ \E r \in 1..MaxRounds, i \in 1..CONCURRENCY : WorkerNotFound(r, i)
  \/ \E r \in 1..MaxRounds, i \in 1..CONCURRENCY : WorkerFailed(r, i)

SpecBatch == InitBatch /\ [][NextBatch]_vars

\* every started detail fetch settles, and a call that is due is made
FairBatch ==
  /\ SpecBatch
  /\ WF_vars(Settle)
  /\ WF_vars(\E r \in 1..MaxRounds : BatchCall(r))

\* ------------------------------------------------------------ lookups alone

\* the arguments of the lookups: names and ids as typed or as listed
LookupKeys == { <<"a">>, <<"A", " ">>, <<"1">>, <<"b">>, <<"2">>, <<"x">> }

\* a page session in which only detail lookups are made
InitLookup ==
  /\ state = InitialState
  /\ controls = [q |-> <<>>, typeFilter |-> <<>>, sortBy |-> "id-asc"]
  /\ typeOptions = <<>>
  /\ cache = EmptyCache
  /\ grid = <<>>
  /\ btnHidden = FALSE
  /\ busy = FALSE
  /\ notices = <<>>
  /\ rounds = <<>>
  /\ nrounds = 0
  /\ initPc = "done"
  /\ detailReqs = [k \in {} |-> 0]
  /\ catalogReqs = <<>>
  /\ fails = 0
  /\ sorting = NoSort

\* lines 183-195 and 213: fetchDetailSafely(nameOrId) is called and awaited
\* by a worker of a fetchManyDetails of that one identifier
LookupCall(nameOrId) ==
  /\ nrounds < MaxLookups
  /\ \E b \in {fetchManyDetails([IdleRound EXCEPT !.mode = "bare"],
                                 <<nameOrId>>, cache)} :
       Task([World EXCEPT !.rounds = Append(@, b),
                          !.nrounds = @ + 1,
                          !.detailReqs = CountRequests(@, 0, b)])

NextLookup ==
  \/ \E nameOrId \in LookupKeys : LookupCall(nameOrId)
  \/ \E r \in 1..MaxLookups : WorkerSettled(r, 1)
  \/ \E r \in 1..MaxLookups : WorkerNotFound(r, 1)
  \/ \E r \in 1..MaxLookups : WorkerFailed(r, 1)

SpecLookup == InitLookup /\ [][NextLookup]_vars

\* ------------------------------------------------------------ a sort alone

\* the details of the arrays sorted: ids and names repeat across them
SortDetails ==
  { [id |-> i, name |-> n, types |-> <<Fire>>] :
      i \in 1..2, n \in { <<"a">>, <<"b">>, <<"a", "b">> } }

SortArrays ==
  UNION { [1..n -> SortDetails] : n \in 0..MaxSortLen }

\* the four keys of the sort control, and two the switch has no case for
SortKeys == { "id-asc", "id-desc", "name-asc", "name-desc", "", "id" }

\* a page session in which sortPokemons(arr, sortBy) is about to be called
InitSort ==
  /\ state = InitialState
  /\ controls = [q |-> <<>>, typeFilter |-> <<>>, sortBy |-> "id-asc"]
  /\ typeOptions = <<>>
  /\ cache = EmptyCache
  /\ grid = <<>>
  /\ btnHidden = FALSE
  /\ busy = FALSE
  /\ notices = <<>>
  /\ rounds = <<>>
  /\ nrounds = 0
  /\ initPc = "done"
  /\ detailReqs = [k \in {} |-> 0]
  /\ catalogReqs = <<>>
  /\ fails = 0
  /\ \E arr \in SortArrays, sortBy \in SortKeys :
       sorting = [pc |-> "call", arr |-> arr, given |-> arr,
                  sortBy |-> sortBy, out |-> <<>>]

\* lines 375-384: sortPokemons(arr, sortBy) runs; it sorts a copy (line 376)
\* and so leaves arr as it is
SortCall ==
  /\ sorting.pc = "call"
  /\ sorting' = [sorting EXCEPT
                   !.pc  = "returned",
                   !.out = sortPokemons(sorting.arr, sorting.sortBy)]
  /\ UNCHANGED <<state, controls, typeOptions, cache, grid, btnHidden, busy,
                 notices, rounds, nrounds, initPc, detailReqs, catalogReqs,
                 fails>>

NextSort == SortCall

SpecSort == InitSort /\ [][NextSort]_vars

\* ------------------------------------------------------------ properties

Calls == 1..Len(rounds)

InBatch(r) == rounds[r].pc \in {"batch", "resolved"}

\* C1: during a call of fetchManyDetails the detail fetches started and not
\* yet settled are never more than CONCURRENCY, and active is their number.
C1_PoolBounded ==
  \A r \in Calls :
    /\ Len(rounds[r].inflight) <= CONCURRENCY
    /\ rounds[r].active = Len(rounds[r].inflight)

\* the pool is full while identifiers are still queued
C1_PoolFull ==
  \E r \in Calls :
    /\ rounds[r].pc = "batch"
    /\ Len(rounds[r].inflight) = CONCURRENCY
    /\ Len(rounds[r].queue) > 0

\* the details of the identifiers whose fetch, once settled, gave a detail
Succeeded(r) ==
  { ServerDetail(CacheKey(rounds[r].settled[i][1])) :
      i \in { j \in 1..Len(rounds[r].settled) : rounds[r].settled[j][2] # Null } }

\* C2: fetchManyDetails starts the fetch of each input identifier exactly
\* once, in order (the started ones followed by the queued ones are the
\* input); every started fetch is in flight or settled; and the delivered
\* result holds no null and is, as a set, the details of the inputs whose
\* fetch succeeded, one entry per successful fetch.
C2_EachOnceAndExactResult ==
  \A r \in Calls :
    InBatch(r) =>
      /\ rounds[r].started \o rounds[r].queue = rounds[r].names
      /\ Len(rounds[r].settled) + Len(rounds[r].inflight) = Len(rounds[r].started)
      /\ rounds[r].pc = "resolved" =>
           /\ rounds[r].started = rounds[r].names
           /\ Null \notin Range(rounds[r].results)
           /\ Range(rounds[r].results) = Succeeded(r)
           /\ Len(rounds[r].results) =
                Cardinality({ j \in 1..Len(rounds[r].settled) :
                                rounds[r].settled[j][2] # Null })

\* a result delivered for a list longer than the pool, one identifier
\* dropped
C2_DeliveredWithDrop ==
  \E r \in Calls :
    /\ rounds[r].pc = "resolved"
    /\ Len(rounds[r].names) > CONCURRENCY
    /\ Len(rounds[r].results) > 0
    /\ Len(rounds[r].results) < Len(rounds[r].names)

\* what holds of a call of fetchManyDetails at every moment: it delivers at
\* most once, only with the queue empty and nothing in flight, and for the
\* empty list without having started a fetch
DeliveredProperly(r) ==
  /\ rounds[r].delivered <= 1
  /\ (rounds[r].pc = "resolved") = (rounds[r].delivered = 1)
  /\ rounds[r].pc = "resolved" =>
       /\ Len(rounds[r].queue) = 0
       /\ rounds[r].active = 0
       /\ Len(rounds[r].inflight) = 0
       /\ Len(rounds[r].settled) = Len(rounds[r].names)
  /\ (rounds[r].pc = "resolved" /\ rounds[r].names = <<>>) =>
       /\ rounds[r].started = <<>>
       /\ \A k \in DOMAIN detailReqs : detailReqs[k] = 0

\* C3: if every started detail fetch settles, fetchManyDetails delivers its
\* result, once, whatever fails; it delivers only with the queue empty and
\* no fetch in flight, and for the empty list without starting a fetch.
C3_DeliversOnce ==
  /\ [](\A r \in Calls : rounds[r].mode = "bare" => DeliveredProperly(r))
  /\ <>(\A r \in Calls : rounds[r].pc = "resolved")

\* a result delivered although every identifier of the list failed
C3_DeliveredAllFailed ==
  \E r \in Calls :
    /\ rounds[r].pc = "resolved"
    /\ Len(rounds[r].names) = 2
    /\ rounds[r].results = <<>>
    /\ fails > 0

\* ------------------------------------------------------------ page loads

\* this step is a query submission: a first-page call of loadMorePage is made
Submitted == nrounds' = nrounds + 1 /\ rounds'[nrounds'].first

\* the mode that the filter inputs ask for
ModeOfInputs(c) ==
  IF Trim(c.q) # <<>> THEN "search"
  ELSE IF Trim(c.typeFilter) # <<>> THEN "type"
  ELSE "list"

\* C4: a query submission sets mode from the trimmed inputs alone (search
\* text, else category, else list); no other step changes mode.
C4_ModeFromInputs ==
  [][IF Submitted THEN state'.mode = ModeOfInputs(controls')
     ELSE state'.mode = state.mode]_vars

\* a search submitted with a category selected, after a list query
C4_SearchOverType ==
  /\ nrounds = 2
  /\ rounds[1].mode = "list"
  /\ state.mode = "search"
  /\ controls.typeFilter # <<>>

\* call r of loadMorePage returns in this step
Returns(r) ==
  /\ r \in 1..Len(rounds')
  /\ rounds'[r].pc = "done"
  /\ r \in Calls => rounds[r].pc # "done"

\* the cards in the grid that call r rendered
CardsBy(g, r) == { i \in 1..Len(g) : g[i].kind = "card" /\ g[i].by = r }

Cards(g) == { i \in 1..Len(g) : g[i].kind = "card" }

\* C5: a list page load whose listing was answered gets at most limit
\* entities and advances offset by exactly limit, however many it got.
C5_ListPageAdvancesByLimit ==
  [][\A r \in Calls :
       (Returns(r) /\ rounds[r].mode = "list" /\ ~rounds'[r].failed) =>
         /\ Len(rounds'[r].results) <= rounds[r].reqLimit
         /\ state'.offset = state.offset + rounds[r].reqLimit]_vars

\* a list page that got no entity, the offset advanced all the same
C5_EmptyPageAdvanced ==
  \E r \in Calls :
    /\ rounds[r].mode = "list"
    /\ rounds[r].pc = "done"
    /\ ~rounds[r].failed
    /\ rounds[r].reqOffset = PAGE_LIMIT
    /\ rounds[r].results = <<>>
    /\ state.offset = 2 * PAGE_LIMIT

\* ------------------------------------------------------------ type mode

\* the call that submitted the query that call r belongs to (0: the query
\* that was on the page from the start)
QueryStart(r) ==
  LET firsts == { k \in 1..r : rounds[k].first }
  IN  IF firsts = {} THEN 0 ELSE CHOOSE k \in firsts : \A j \in firsts : j <= k

\* the requests of the type catalog made by calls of the query of call r
TypeRequestsOf(r) ==
  { i \in 1..Len(catalogReqs) :
      /\ catalogReqs[i].kind = "type"
      /\ catalogReqs[i].by >= r
      /\ QueryStart(catalogReqs[i].by) = r }

\* C6: in type mode the catalog is requested exactly once per query, by its
\* first page load; the later page loads of that query request none.
C6_OneCatalogRequest ==
  \A r \in Calls :
    (rounds[r].first /\ rounds[r].mode = "type") =>
      Cardinality(TypeRequestsOf(r)) = 1

\* call r has resolved its slice of the catalog
Sliced(r) ==
  /\ rounds[r].mode = "type"
  /\ rounds[r].pc \in {"batch", "resolved", "done"}
  /\ ~rounds[r].failed

\* the calls of the query now on the page that have resolved a slice
CurrentPages == { k \in Calls : QueryStart(k) = QueryStart(nrounds) /\ Sliced(k) }

\* every call so far is a page load of the one type query on the page
OnlyTypeQuery ==
  /\ state.mode = "type"
  /\ \A k \in Calls : rounds[k].mode = "type" /\ QueryStart(k) = 1

\* C7: the n-th page load of a type query that resolves a slice resolves the
\* catalog positions [(n-1)*limit, min(n*limit, N)); after it the cursor is
\* min(n*limit, N) and hasMore says cursor < N.  Stated for a page that has
\* only ever loaded pages of that one query.
C7_TypePagesAreConsecutive ==
  (OnlyTypeQuery /\ CurrentPages # {}) =>
    LET members == NamesOf(CatalogOf(TypeMembers(state.currentType)))
        N       == Len(members)
        pages   == Cardinality(CurrentPages)
    IN  /\ \A r \in CurrentPages :
             LET n == Cardinality({ k \in CurrentPages : k <= r })
             IN  rounds[r].names =
                   SubSeq(members, (n - 1) * state.limit + 1,
                          Min(n * state.limit, N))
        /\ state.typeCursor = Min(pages * state.limit, N)
        /\ state.hasMore = (state.typeCursor < N)

\* ------------------------------------------------------------ search mode

\* the lookup of search call r found its entity: the server knows the key
\* and the step that returns is not a failed request
Resolves(r) ==
  /\ ServerDetail(rounds'[r].reqKey) # Null
  /\ fails' = fails

\* C8: a search with a category selected whose entity exists but is not of
\* that category renders no card and shows exactly one info notice, and no
\* error notice.
C8_MismatchShowsOneInfo ==
  [][\A r \in 1..Len(rounds') :
       ( /\ Returns(r)
         /\ rounds'[r].mode = "search"
         /\ Resolves(r)
         /\ state'.currentType # <<>>
         /\ state'.currentType
              \notin Range(ServerDetail(rounds'[r].reqKey).types) ) =>
         /\ CardsBy(grid', r) = {}
         /\ notices' = Append(notices, <<"info", r>>)]_vars

\* a search for entity "a" under a category it is not of has returned
C8_MismatchReturned ==
  \E r \in Calls :
    /\ rounds[r].mode = "search"
    /\ rounds[r].pc = "done"
    /\ rounds[r].reqKey = <<"a">>
    /\ state.currentType = Water
    /\ <<"info", r>> \in Range(notices)

\* the number of detail requests issued so far
RECURSIVE SumOver(_, _)
SumOver(f, keys) ==
  IF keys = {} THEN 0
  ELSE LET k == CHOOSE x \in keys : TRUE
       IN  f[k] + SumOver(f, keys \ {k})

TotalRequests(reqs) == SumOver(reqs, DOMAIN reqs)

\* C9: a search with no category selected makes one lookup (one detail
\* request, none when the key is cached), renders one card exactly when the
\* key resolves, and leaves hasMore false and "Load more" hidden.
C9_SearchIsOneLookup ==
  [][\A r \in 1..Len(rounds') :
       (rounds'[r].mode = "search" /\ state'.currentType = <<>>) =>
         /\ r \notin Calls =>
              TotalRequests(detailReqs') - TotalRequests(detailReqs)
                = IF CacheHas(cache, state'.currentQ) THEN 0 ELSE 1
         /\ (r \in Calls /\ Returns(r)) => detailReqs' = detailReqs
         /\ Returns(r) =>
              /\ Cardinality(CardsBy(grid', r)) = IF Resolves(r) THEN 1 ELSE 0
              /\ ~state'.hasMore
              /\ btnHidden']_vars

\* a search answered by the network has rendered its one card
C9_OneCardRendered ==
  \E r \in Calls :
    /\ rounds[r].mode = "search"
    /\ rounds[r].pc = "done"
    /\ ~rounds[r].hit
    /\ state.currentType = <<>>
    /\ Cardinality(CardsBy(grid, r)) = 1
    /\ btnHidden

\* ------------------------------------------------------------ failures

\* call r is aborted in this step by the failure of its request
Aborts(r) == Returns(r) /\ rounds'[r].failed /\ rounds[r].mode \in {"list", "type"}

\* what a failed load leaves alone, as it was when call r started
Kept(st) ==
  [f \in {"offset", "typeCatalog", "typeCursor", "hasMore", "mode",
          "currentQ", "currentType", "currentSort"} |-> st[f]]

\* C10 as stated: after the abort, the paging and filter fields are what they
\* were when the aborted page load started.
C10_FieldsAsAtStart ==
  [][\A r \in Calls :
       Aborts(r) =>
         /\ Cards(grid') = Cards(grid)
         /\ notices' = Append(notices, <<"error", r>>)
         /\ ~busy'
         /\ Kept(state') = Kept(rounds[r].snap[1])]_vars

\* C10: a failed list or type request aborts the page load: no card is
\* appended, exactly one error notice is shown, busy is cleared, and the
\* abort itself changes none of the paging and filter fields.
C10_AbortChangesNothing ==
  [][\A r \in Calls :
       Aborts(r) =>
         /\ grid' = clearSkeletons(grid)
         /\ notices' = Append(notices, <<"error", r>>)
         /\ ~busy'
         /\ btnHidden' = btnHidden
         /\ Kept(state') = Kept(state)]_vars

\* a type page load aborted while "Load more" was showing
C10_TypeLoadAborted ==
  \E r \in Calls :
    /\ rounds[r].mode = "type"
    /\ rounds[r].failed
    /\ <<"error", r>> \in Range(notices)
    /\ state.hasMore
    /\ ~busy

\* ------------------------------------------------------------ the cache

\* C11: over any interleaving of page loads, at most one detail request is
\* issued for any identifier.
C11_OneRequestPerIdentifier ==
  \A k \in DOMAIN detailReqs : detailReqs[k] <= 1

\* the lookup that call r made has returned d
Returned1(r, d) ==
  /\ rounds'[r].pc = "resolved"
  /\ rounds'[r].settled = << <<rounds'[r].names[1], d>> >>
  /\ rounds'[r].results = IF d = Null THEN <<>> ELSE <<d>>

\* the detail request of the lookup of call r is answered in this step
Answered(r) ==
  /\ r \in Calls
  /\ rounds[r].pc = "batch"
  /\ rounds'[r].pc = "resolved"

\* C12: once a lookup of k has fetched d, the cache maps k, the string of
\* d.id and the lowercased d.name to d; a later lookup of any of them
\* returns d with no request; and no key ever leaves the cache.
C12_AliasesCachedForGood ==
  [][/\ \A k \in DOMAIN cache : k \in DOMAIN cache' /\ cache'[k] = cache[k]
     /\ \A r \in Calls :
          LET k == CacheKey(rounds[r].names[1])
              d == ServerDetail(k)
          IN  (Answered(r) /\ d # Null /\ fails' = fails) =>
                /\ Returned1(r, d)
                /\ {k, String(d.id), ToLowerCase(d.name)} \subseteq DOMAIN cache'
                /\ cache'[k] = d
                /\ cache'[String(d.id)] = d
                /\ cache'[ToLowerCase(d.name)] = d
     /\ (nrounds' = nrounds + 1
         /\ CacheKey(rounds'[nrounds'].names[1]) \in DOMAIN cache) =>
          /\ detailReqs' = detailReqs
          /\ Returned1(nrounds', cache[CacheKey(rounds'[nrounds'].names[1])])]_vars

\* entity 2, fetched by id, was then returned for its name with no request
C12_NameHitAfterIdFetch ==
  \E r1 \in Calls, r2 \in Calls :
    /\ r1 < r2
    /\ rounds[r1].names = << <<"2">> >>
    /\ rounds[r2].names = << <<"b">> >>
    /\ rounds[r2].results = << ServerDetail(<<"2">>) >>
    /\ <<"b">> \notin DOMAIN detailReqs

\* the requests issued so far for key
RequestsFor(reqs, key) == IF key \in DOMAIN reqs THEN reqs[key] ELSE 0

\* C13: when the detail request of a lookup fails (404 or transport), the
\* lookup returns null to its caller, nothing is thrown, the cache is left as
\* it was, and a later lookup of the same key issues a request again.
C13_FailureIsSoft ==
  [][/\ \A r \in Calls :
          LET k == CacheKey(rounds[r].names[1])
          IN  (Answered(r) /\ (ServerDetail(k) = Null \/ fails' # fails)) =>
                /\ Returned1(r, Null)
                /\ cache' = cache
     /\ (nrounds' = nrounds + 1
         /\ CacheKey(rounds'[nrounds'].names[1]) \notin DOMAIN cache) =>
          LET k == CacheKey(rounds'[nrounds'].names[1])
          IN  /\ RequestsFor(detailReqs', k) = RequestsFor(detailReqs, k) + 1
              /\ rounds'[nrounds'].pc = "batch"]_vars

\* a key whose lookup had failed was requested again by a later lookup
C13_RequestedAgain ==
  \E r1 \in Calls, r2 \in Calls :
    /\ r1 < r2
    /\ rounds[r1].names = rounds[r2].names
    /\ rounds[r1].pc = "resolved"
    /\ rounds[r1].results = <<>>
    /\ rounds[r2].pc = "batch"
    /\ RequestsFor(detailReqs, CacheKey(rounds[r1].names[1])) = 2

\* ------------------------------------------------------------ sortPokemons

SupportedKeys == { "id-asc", "id-desc", "name-asc", "name-desc" }

\* x may stand before y under the key
InOrder(x, y, sortBy) ==
  CASE sortBy = "id-asc"    -> x.id <= y.id
    [] sortBy = "id-desc"   -> x.id >= y.id
    [] sortBy = "name-asc"  -> localeCompare(x.name, y.name) <= 0
    [] sortBy = "name-desc" -> localeCompare(x.name, y.name) >= 0

SameKey(x, y, sortBy) == InOrder(x, y, sortBy) /\ InOrder(y, x, sortBy)

IsSorted(s, sortBy) ==
  \A i \in 1..Len(s), j \in 1..Len(s) : i < j => InOrder(s[i], s[j], sortBy)

\* the elements of s that have the key of x, in their order in s
RECURSIVE WithKeyOf(_, _, _)
WithKeyOf(s, x, sortBy) ==
  IF s = <<>> THEN <<>>
  ELSE (IF SameKey(Head(s), x, sortBy) THEN <<Head(s)>> ELSE <<>>)
       \o WithKeyOf(Tail(s), x, sortBy)

\* C14: sortPokemons leaves its input as it was; for a supported key the
\* result is a permutation of the input, ordered by the key, equal keys in
\* their input order, and a sorted input comes back as it is; for any other
\* key the result is the input order.
C14_SortIsStableAndPure ==
  sorting.pc = "returned" =>
    /\ sorting.arr = sorting.given
    /\ Len(sorting.out) = Len(sorting.arr)
    /\ sorting.sortBy \in SupportedKeys =>
         /\ IsSorted(sorting.out, sorting.sortBy)
         /\ \A x \in Range(sorting.arr) \cup Range(sorting.out) :
              WithKeyOf(sorting.out, x, sorting.sortBy)
                = WithKeyOf(sorting.arr, x, sorting.sortBy)
         /\ IsSorted(sorting.arr, sorting.sortBy) => sorting.out = sorting.arr
    /\ sorting.sortBy \notin SupportedKeys => sorting.out = sorting.arr

\* an unsorted array with a repeated name came back sorted by name-desc
C14_SortedByNameDesc ==
  /\ sorting.pc = "returned"
  /\ sorting.sortBy = "name-desc"
  /\ Len(sorting.arr) = 3
  /\ sorting.arr[1].name = <<"a">>
  /\ sorting.arr[2].name = <<"a", "b">>
  /\ sorting.arr[3].name = <<"a">>
  /\ sorting.arr[1].id # sorting.arr[3].id
  /\ sorting.out = <<sorting.arr[2], sorting.arr[1], sorting.arr[3]>>

\* ------------------------------------------------------------ list mode

\* the listing requests made by the calls of the query that call q submitted,
\* by their place in the order of issue
ListRequestsOf(q) ==
  { i \in 1..Len(catalogReqs) :
      /\ catalogReqs[i].kind = "list"
      /\ QueryStart(catalogReqs[i].by) = q }

\* C15: the listing requests of a list query are issued with the offsets 0,
\* limit, 2*limit, ... in that order, whatever the interleaving of
\* submissions, clicks on "Load more" and answers.
C15_ListOffsetsInOrder ==
  \A q \in Calls :
    rounds[q].first =>
      \A i \in ListRequestsOf(q) :
        catalogReqs[i].offset
          = state.limit * Cardinality({ j \in ListRequestsOf(q) : j < i })

\* ------------------------------------------------------------ superseded queries

\* a query was submitted after call r was made
Superseded(r) == \E k \in Calls : k > r /\ rounds[k].first

\* C16: a submission cancels nothing: the page loads in flight stay in
\* flight, and a page load of a superseded query that returns with a batch
\* appends its cards to the grid that the submission had cleared.
C16_StaleLoadStillRenders ==
  [][/\ Submitted =>
          \A r \in Calls : rounds[r].pc # "done" => rounds'[r] = rounds[r]
     /\ \A r \in Calls :
          ( /\ Superseded(r)
            /\ Returns(r)
            /\ ~rounds'[r].failed
            /\ rounds'[r].results # <<>> ) =>
            /\ CardsBy(grid, r) = {}
            /\ Cardinality(CardsBy(grid', r)) = Len(rounds'[r].results)
            /\ Len(grid') = Len(clearSkeletons(grid)) + Len(rounds'[r].results)]_vars

\* the grid of a search shows the cards of the list page it superseded
C16_StaleCardsShown ==
  \E r \in Calls :
    /\ Superseded(r)
    /\ rounds[r].mode = "list"
    /\ state.mode = "search"
    /\ CardsBy(grid, r) # {}

\* ------------------------------------------------------------ busy and "Load more"

\* call r of loadMorePage was made and has not returned
InFlight(r) == rounds[r].pc # "done"

\* C17: busy is true whenever a page load is in flight, and false whenever
\* none is in flight after at least one has run.
C17_BusyIffLoading ==
  /\ (\E r \in Calls : InFlight(r)) => busy
  /\ (Calls # {} /\ \A r \in Calls : ~InFlight(r)) => ~busy

\* C18: whenever a page load has completed, with cards, with none or with a
\* failure, and no page load is in flight, "Load more" is visible exactly
\* when hasMore is true.
C18_ButtonFollowsHasMore ==
  (Calls # {} /\ \A r \in Calls : ~InFlight(r)) => (~btnHidden <=> state.hasMore)

\* ------------------------------------------------------------ the type catalog

\* C19: in type mode, whenever the type catalog is not empty it is the
\* member list of the type now selected, whatever the interleaving of
\* submissions and answers.
C19_CatalogIsOfCurrentType ==
  (state.mode = "type" /\ state.typeCatalog # <<>>) =>
    state.typeCatalog = CatalogOf(TypeMembers(state.currentType))

\* C20: in every state 0 <= typeCursor <= Len(typeCatalog) and offset is a
\* non-negative multiple of limit; and a step that replaces the catalog
\* restarts the cursor from 0 in that same step (it is 0, or the length of
\* the first slice the step then took).
C20_CursorWithinCatalog ==
  /\ [](/\ 0 <= state.typeCursor
        /\ state.typeCursor <= Len(state.typeCatalog)
        /\ state.offset >= 0
        /\ state.offset % state.limit = 0)
  /\ [][state'.typeCatalog # state.typeCatalog =>
          state'.typeCursor \in {0, Min(state.limit, Len(state'.typeCatalog))}]_vars

\* the catalog of fire, its first slice taken, was replaced by the empty
\* catalog of water
C20_CatalogReplaced ==
  \E r1 \in Calls, r2 \in Calls :
    /\ rounds[r1].reqKey = Fire
    /\ Sliced(r1)
    /\ rounds[r1].names # <<>>
    /\ rounds[r2].reqKey = Water
    /\ Sliced(r2)
    /\ state.currentType = Water
    /\ state.typeCatalog = <<>>
    /\ state.typeCursor = 0

====
